---- MODULE Spec2Model ----
(***************************************************************************)
(* Model of the episode generator of problems/interruption_swap_recall.py: *)
(* the function rotate and the method InterruptionSwapRecall.generate_batch.*)
(*                                                                         *)
(* A tensor of shape [batch, time, bits] is a function from 1..batch to a  *)
(* sequence (time) of sequences (bits) of 0/1 values.  Python's 0-based    *)
(* index i is the model's index i + 1.                                     *)
(***************************************************************************)
EXTENDS Integers, Sequences, FiniteSets, TLC

VARIABLES
    \* ---- InterruptionSwapRecall: the dictionary handed to __init__, and
    \* the fields __init__ sets from it ----
    params,
    self,
    \* utils.augment is imported, not defined in the source files: which
    \* description of its dummy part the run follows (see augment below)
    utils_augment,
    \* ---- generate_batch: where the call is, and its locals ----
    pc,                 \* "new" | "init_raised" | "constructed" | "returned" | "raised"
    nb_sub_seq_a,       \* line 79
    seq_lengths_a,      \* line 83
    seq_lengths_b,      \* line 84
    x, y,               \* lines 87-88
    target,             \* line 91 (targets_raw)
    inputs_raw,         \* line 113, before line 126 changes it
    mask,               \* lines 120-123
    inputs,             \* after line 126
    target_with_dummies,\* lines 129-130
    \* ---- rotate called on its own: arguments and results ----
    rpc,                \* "args" | "rotated" | "back"
    rseq,               \* the block handed to rotate
    rrot,               \* the rotation handed to rotate
    rtype,              \* its Python type: "int" | "float"
    ralt,               \* a second rotation, applied to the same block
    rout,               \* rotate(rseq, rrot, L)
    raltout,            \* rotate(rseq, ralt, L)
    rback,              \* rotate(rout, -rrot, L)
    \* ---- models/dwm/dwm_model.py: a DWM object and its last forward ----
    dwm,                \* the fields num_shift and memory_addresses_size
    dpc,                \* "none" | "constructed" | "forwarded"
    dwm_inputs_size,    \* inputs.size() of the last forward
    init_state_size     \* the memory size the last forward gave init_state

evars == <<params, self, utils_augment, pc, nb_sub_seq_a, seq_lengths_a, seq_lengths_b,
           x, y, target, inputs_raw, mask, inputs, target_with_dummies>>
rvars == <<rpc, rseq, rrot, rtype, ralt, rout, raltout, rback>>
dvars == <<dwm, dpc, dwm_inputs_size, init_state_size>>
vars == <<evars, rvars, dvars>>

(***************************************************************************)
(* Bounds of the model.                                                    *)
(***************************************************************************)
BatchSize == 2          \* params['batch_size']
DataBits == 2           \* params['data_bits']
MaxControlBits == 4     \* params['control_bits'] ranges over 3..MaxControlBits
MaxSeqLen == 2          \* params['max_sequence_length']
MaxSubseq == 2          \* params['num_subseq_max']
MaxSeed == 3            \* seeds of the random source: 0..MaxSeed
MaxRotNum == 3          \* numerators of the rotations tried: -MaxRotNum..MaxRotNum
MaxRotLen == 3          \* lengths of the blocks handed to rotate on its own
MaxShift == 3           \* params["shift_size"] of a DWM: 1..MaxShift
MaxMemory == 4          \* memory sizes configured or set: -1..MaxMemory
MaxDwmSeqLen == 4       \* sequence lengths handed to DWM.forward

(***************************************************************************)
(* Numbers.  A rotation is a rational [n, d] with d > 0 (Python int or     *)
(* float; the denominators used are exact in binary floating point or give *)
(* exact products with the lengths used).                                  *)
(***************************************************************************)
Rat(n, d) == [n |-> n, d |-> d]
RatLeq(p, q) == p.n * q.d <= q.n * p.d
RatTimesInt(p, k) == Rat(p.n * k, p.d)
RatNeg(p) == Rat(-p.n, p.d)

\* np.round: to the nearest integer, a tie to the even neighbour
np_round(p) ==
    LET fl == p.n \div p.d
        rem == p.n - p.d * fl
    IN  IF 2 * rem < p.d THEN fl
        ELSE IF 2 * rem > p.d THEN fl + 1
        ELSE IF fl % 2 = 0 THEN fl ELSE fl + 1

(***************************************************************************)
(* Tensors.                                                                *)
(***************************************************************************)
\* a function on 1..n as the tuple of its values (the same value, held
\* evaluated)
Tup(f) == f \o <<>>

Batch(t) == DOMAIN t
TimeLen(t) == Len(t[1])                          \* t.shape[1]

\* np.zeros((batch, time, bits))
np_zeros(b, l, w) ==
    LET row == Tup([j \in 1..w |-> 0])
        rows == Tup([k \in 1..l |-> row])
    IN  Tup([i \in 1..b |-> rows])

\* seq[:, lo:hi, :] with 0 <= lo, Python's clipping of hi
SliceTime(t, lo, hi) ==
    Tup([b \in Batch(t) |->
        SubSeq(t[b], lo + 1, IF hi > Len(t[b]) THEN Len(t[b]) ELSE hi)])

\* np.concatenate((a, b), axis=1)
Concat2(a, b) == Tup([i \in Batch(a) |-> a[i] \o b[i]])

RECURSIVE ConcatFrom(_, _, _)
\* the rows of batch element b of the arrays list[k], list[k+1], ...
ConcatFrom(list, b, k) ==
    IF k > Len(list) THEN <<>> ELSE list[k][b] \o ConcatFrom(list, b, k + 1)

\* np.concatenate(list, axis=1), the list not empty
np_concatenate(list) == Tup([b \in Batch(list[1]) |-> ConcatFrom(list, b, 1)])

(***************************************************************************)
(* rotate(seq, rotation, seq_length), lines 8-22.                          *)
(***************************************************************************)
\* rotation_items with the sign of the rotation lost before the modulo
rotation_items_unsigned(rotation, seq_length) ==
    LET rel == IF RatLeq(Rat(-1, 1), rotation) /\ RatLeq(rotation, Rat(1, 1))
               THEN RatTimesInt(rotation, seq_length)
               ELSE rotation
        v == np_round(rel)
    IN  (IF v < 0 THEN -v ELSE v) % seq_length

\* lines 14-19: the number of items rotate shifts by
rotation_items(rotation, seq_length) ==
    LET rel == IF RatLeq(Rat(-1, 1), rotation) /\ RatLeq(rotation, Rat(1, 1))
               THEN RatTimesInt(rotation, seq_length)
               ELSE rotation
    IN  np_round(rel) % seq_length

\* line 21
rotate(seq, rotation, seq_length) ==
    LET r == rotation_items(rotation, seq_length)
    IN  Concat2(SliceTime(seq, r, TimeLen(seq)), SliceTime(seq, 0, r))

(***************************************************************************)
(* The random source.  np.random is a seeded generator: a seed fixes the   *)
(* stream of uniform draws u_0, u_1, ... (here in sixteenths, one period   *)
(* of a full-cycle congruential generator), and binomial(1, p) turns the   *)
(* k-th draw into the bit [u_k < p].                                       *)
(***************************************************************************)
Cycle == <<0, 3, 2, 13, 4, 7, 6, 1, 8, 11, 10, 5, 12, 15, 14, 9>>
Uniform(seed, k) == Cycle[((seed + k) % Len(Cycle)) + 1]

\* np.random.binomial(1, bias, (batch, n, bits)), after `at` earlier draws
binomial(bias, b, n, w, seed, at) ==
    Tup([i \in 1..b |-> Tup([k \in 1..n |-> Tup([j \in 1..w |->
        IF Uniform(seed, at + ((i - 1) * n + (k - 1)) * w + (j - 1)) * bias.d
             < bias.n * Len(Cycle)
        THEN 1 ELSE 0])])])

\* np.random.binomial accepting only a probability below zero as wrong
binomial_raises_below_only(p) == ~RatLeq(Rat(0, 1), p)

\* np.random.binomial(1, p, shape): ValueError unless 0 <= p <= 1
binomial_raises(p) == ~(RatLeq(Rat(0, 1), p) /\ RatLeq(p, Rat(1, 1)))

\* np.random.randint(low, high, ...): ValueError when low >= high
randint_raises(low, high) == low >= high

RECURSIVE SumLen(_, _)
\* seq_lengths[0] + ... + seq_lengths[i-1]
SumLen(seq_lengths, i) ==
    IF i = 0 THEN 0 ELSE seq_lengths[i] + SumLen(seq_lengths, i - 1)

(***************************************************************************)
(* utils.add_ctrl and utils.augment: imported at line 4, not among the     *)
(* source files.                                                           *)
(***************************************************************************)
\* add_ctrl(seq, ctrl, pos): the control pattern inserted into every row at
\* the insertion point pos (pos = [0, 0, 0]: in front of the data bits)
add_ctrl(seq, ctrl, pos) ==
    Tup([b \in Batch(seq) |-> Tup([t \in 1..Len(seq[b]) |->
        SubSeq(seq[b][t], 1, pos[1]) \o ctrl
            \o SubSeq(seq[b][t], pos[1] + 1, Len(seq[b][t]))])])

\* augment(seq, markers, ctrl_start, add_marker_data): the list [w, dummy].
\*   w: the data rows tagged ctrl_data, led by one ctrl_start row when
\*      add_marker_data is set.
\*   dummy, as the specification describes it ("spec"): as many zero rows as
\*      the data has, tagged ctrl_dummy.
\*   dummy, as generate_batch describes it ("caller"): one marker row tagged
\*      ctrl_dummy ("also a marker at the begging of dummies is added", lines
\*      93-95; the "&" of the docstring, line 63; the row line 110 strips),
\*      then as many zero rows as the data has, every control bit set (the
\*      rows lines 120-123 select and line 125 calls the dummies).
augment(seq, markers, ctrl_start, add_marker_data, reading) ==
    LET ctrl_data == markers[1]
        ctrl_dummy == markers[2]
        pos == markers[3]
        b == Cardinality(Batch(seq))
        w0 == add_ctrl(seq, ctrl_data, pos)
        start == add_ctrl(np_zeros(b, 1, Len(seq[1][1])), ctrl_start, pos)
        w == IF add_marker_data THEN Concat2(start, w0) ELSE w0
        start_dummy == add_ctrl(np_zeros(b, 1, Len(seq[1][1])), ctrl_dummy, pos)
        ones == [i \in 1..Len(ctrl_data) |-> 1]
        zeros_like == np_zeros(b, TimeLen(seq), Len(seq[1][1]))
        dummy == IF reading = "spec"
                 THEN add_ctrl(zeros_like, ctrl_dummy, pos)
                 ELSE Concat2(start_dummy, add_ctrl(zeros_like, ones, pos))
    IN  <<w, dummy>>

(***************************************************************************)
(* InterruptionSwapRecall.generate_batch, lines 58-132.                    *)
(***************************************************************************)
\* lines 70-76, 101-102: the control channel markers
pos == <<0, 0, 0>>
ctrl_data == <<0, 0, 0>>
ctrl_dummy == <<0, 0, 1>>
ctrl_inter == <<1, 1, 0>>
ctrl_xy == <<0, 1, 0>>
markers == <<ctrl_data, ctrl_dummy, pos>>

\* subsequences with every block drawn with the first length of the family
subsequences_first_length(bias, b, w, seq_lengths, seed, at) ==
    Tup([i \in 1..Len(seq_lengths) |->
        binomial(bias, b, seq_lengths[1], w, seed,
                 at + b * w * seq_lengths[1] * (i - 1))])

\* lines 87-88: the blocks of one family, the i-th after the draws of the
\* earlier ones (and after `at` draws made before the family)
subsequences(bias, b, w, seq_lengths, seed, at) ==
    Tup([i \in 1..Len(seq_lengths) |->
        binomial(bias, b, seq_lengths[i], w, seed,
                 at + b * w * SumLen(seq_lengths, i - 1))])

\* make_target with the families in the other order: x + y
make_target_xy(xs, ys) == np_concatenate(xs \o ys)

\* make_target with every y rotated by half its length
make_target_rotated_y(xs, ys) ==
    np_concatenate(
        [i \in 1..Len(ys) |-> rotate(ys[i], Rat(1, 2), TimeLen(ys[i]))] \o xs)

\* line 91: target = np.concatenate(y + x, axis=1)
make_target(xs, ys) == np_concatenate(ys \o xs)

\* line 94
make_xx(xs, reading) ==
    Tup([i \in 1..Len(xs) |-> augment(xs[i], markers, <<1, 0, 0>>, TRUE, reading)])

\* make_yy with the start marker of y added to the data
make_yy_marked(ys, reading) ==
    Tup([i \in 1..Len(ys) |-> augment(ys[i], markers, <<0, 1, 0>>, TRUE, reading)])

\* line 97
make_yy(ys, reading) ==
    Tup([i \in 1..Len(ys) |-> augment(ys[i], markers, <<0, 1, 0>>, FALSE, reading)])

\* line 100
make_inter_seq(b, w) == add_ctrl(np_zeros(b, 1, w), ctrl_inter, pos)

\* line 104
make_inter_xy(b, w) == add_ctrl(np_zeros(b, 1, w), ctrl_xy, pos)

RECURSIVE data_1_dummy_first(_, _, _, _, _)
\* data_1 with the dummies of y put before the rotated y
data_1_dummy_first(xx, yy, inter_xy, rotation, i) ==
    IF i > Len(xx) \/ i > Len(yy) THEN <<>>
    ELSE SubSeq(xx[i], 1, Len(xx[i]) - 1)
            \o <<inter_xy>>
            \o <<yy[i][2]>>
            \o <<rotate(yy[i][1], rotation, TimeLen(yy[i][1]))>>
            \o data_1_dummy_first(xx, yy, inter_xy, rotation, i + 1)

RECURSIVE data_1(_, _, _, _, _)
\* line 107: for the pairs i..n of zip(xx, yy), the arrays
\* a[:-1] + [inter_xy] + [rotate(b[0], rotation, b[0].shape[1])] + [b[1]]
data_1(xx, yy, inter_xy, rotation, i) ==
    IF i > Len(xx) \/ i > Len(yy) THEN <<>>
    ELSE SubSeq(xx[i], 1, Len(xx[i]) - 1)
            \o <<inter_xy>>
            \o <<rotate(yy[i][1], rotation, TimeLen(yy[i][1]))>>
            \o <<yy[i][2]>>
            \o data_1(xx, yy, inter_xy, rotation, i + 1)

\* data_2 without the slice: the whole of a[-1]
data_2_whole(xx) ==
    Tup([i \in 1..Len(xx) |-> xx[i][Len(xx[i])]])

\* line 110: data_2 = [a[-1][:, 1:, :] for a in xx]
data_2(xx) ==
    Tup([i \in 1..Len(xx) |->
        SliceTime(xx[i][Len(xx[i])], 1, TimeLen(xx[i][Len(xx[i])]))])

\* make_inputs with the recall part put before the pairs
make_inputs_recall_first(d1, inter_seq, d2) ==
    np_concatenate(d2 \o <<inter_seq>> \o d1)

\* line 113
make_inputs(d1, inter_seq, d2) == np_concatenate(d1 \o <<inter_seq>> \o d2)

\* make_mask reading the last control channel only
make_mask_last_channel(inp, control_bits) ==
    Tup([b \in Batch(inp) |->
        Tup([t \in 1..Len(inp[b]) |-> inp[b][t][control_bits] = 1])])

\* make_mask with the channels added instead of multiplied
make_mask_sum(inp, control_bits) ==
    Tup([b \in Batch(inp) |-> Tup([t \in 1..Len(inp[b]) |->
        \E i \in 1..control_bits : inp[b][t][i] = 1])])

\* lines 120-123: mask_all = inputs[:, :, 0:control_bits] == 1, and mask the
\* product of mask_all[..., i] over i in range(control_bits)
make_mask(inp, control_bits) ==
    Tup([b \in Batch(inp) |-> Tup([t \in 1..Len(inp[b]) |->
        \A i \in 1..control_bits : inp[b][t][i] = 1])])

\* reset_ctrl zeroing the control channel at every time-step
reset_ctrl_every_step(inp, m, control_bits) ==
    Tup([b \in Batch(inp) |-> Tup([t \in 1..Len(inp[b]) |->
        Tup([j \in 1..Len(inp[b][t]) |->
                IF j <= control_bits THEN 0 ELSE inp[b][t][j]])])])

\* line 126: inputs[:, mask[0], 0:control_bits] = 0
reset_ctrl(inp, m, control_bits) ==
    Tup([b \in Batch(inp) |-> Tup([t \in 1..Len(inp[b]) |->
        IF m[1][t]
        THEN Tup([j \in 1..Len(inp[b][t]) |->
                    IF j <= control_bits THEN 0 ELSE inp[b][t][j]])
        ELSE inp[b][t]])])

\* the number of time-steps a mask row selects
CountTrue(row) == Cardinality({t \in 1..Len(row) : row[t]})

RECURSIVE Ranks(_, _, _)
\* for the time-steps t.. of a mask row, the number of selected time-steps
\* up to each, `before` being the number of those before t
Ranks(row, t, before) ==
    IF t > Len(row) THEN <<>>
    ELSE LET here == IF row[t] THEN before + 1 ELSE before
         IN  <<here>> \o Ranks(row, t + 1, here)

\* line 129: torch.zeros_like(inputs[:, :, control_bits:])
zeros_like_data(inp, control_bits) ==
    Tup([b \in Batch(inp) |-> Tup([t \in 1..Len(inp[b]) |->
        Tup([j \in 1..(Len(inp[b][t]) - control_bits) |-> 0])])])

\* line 130: whether target can be broadcast to the shape of
\* target_with_dummies[:, mask[0], :] (equal sizes, or size 1 in target)
scatter_fits(twd, m, tgt) ==
    /\ TimeLen(tgt) = CountTrue(m[1]) \/ TimeLen(tgt) = 1
    /\ Len(tgt[1][1]) = Len(twd[1][1]) \/ Len(tgt[1][1]) = 1

\* line 130: target_with_dummies[:, mask[0], :] = target
scatter(twd, m, tgt) ==
    LET rank == Ranks(m[1], 1, 0)
    IN  Tup([b \in Batch(twd) |-> Tup([t \in 1..Len(twd[b]) |->
            IF m[1][t]
            THEN LET row == tgt[b][IF TimeLen(tgt) = 1 THEN 1 ELSE rank[t]]
                 IN  Tup([j \in 1..Len(twd[b][t]) |->
                            row[IF Len(row) = 1 THEN 1 ELSE j]])
            ELSE twd[b][t]])])

(***************************************************************************)
(* The configurations tried, and the object after __init__ (lines 39-56).  *)
(***************************************************************************)
ConfigRotations == {Rat(0, 1), Rat(1, 2), Rat(2, 1)}
ConfigBiases == {Rat(1, 2), Rat(1, 1)}

ParamsOf(control_bits, bias, rotation) ==
    [batch_size |-> BatchSize,
     control_bits |-> control_bits,
     data_bits |-> DataBits,
     min_sequence_length |-> 1,
     max_sequence_length |-> MaxSeqLen,
     num_subseq_min |-> 1,
     num_subseq_max |-> MaxSubseq,
     bias |-> bias,
     rotation |-> rotation]

\* the example of lines 139-140, but for the bounds
ExampleParams == ParamsOf(3, Rat(1, 2), Rat(1, 2))

\* three control bits with every bias and rotation, and more control bits
\* with those of the example
Params ==
    {ParamsOf(3, bias, rotation) : bias \in ConfigBiases, rotation \in ConfigRotations}
        \cup {ParamsOf(c, Rat(1, 2), Rat(1, 2)) : c \in 3..MaxControlBits}

NoTensor == <<>>

\* the locals of generate_batch before a call
NoCall ==
    /\ pc = "constructed"
    /\ nb_sub_seq_a = 0
    /\ seq_lengths_a = <<>>
    /\ seq_lengths_b = <<>>
    /\ x = <<>>
    /\ y = <<>>
    /\ target = NoTensor
    /\ inputs_raw = NoTensor
    /\ mask = NoTensor
    /\ inputs = NoTensor
    /\ target_with_dummies = NoTensor

\* no DWM model built
NoDwm ==
    /\ dwm = [num_shift |-> 1, memory_addresses_size |-> -1]
    /\ dpc = "none"
    /\ dwm_inputs_size = <<>>
    /\ init_state_size = 0

\* rotate not called on its own
NoRotate ==
    /\ rpc = "none"
    /\ rseq = NoTensor
    /\ rrot = Rat(0, 1)
    /\ rtype = "float"
    /\ ralt = Rat(0, 1)
    /\ rout = NoTensor
    /\ raltout = NoTensor
    /\ rback = NoTensor

Init ==
    /\ \/ self \in Params /\ utils_augment = "caller"
       \/ self = ExampleParams /\ utils_augment = "spec"
    /\ params = self
    /\ NoCall
    /\ NoRotate
    /\ NoDwm

\* The body of generate_batch for one outcome of the random draws (n pairs,
\* the lengths la and lb, the seed of the bit stream): every local, and how
\* the call ends.  Line 130 raises when the shapes do not fit, and then
\* nothing is returned.
generate_batch_locals(slf, reading, n, la, lb, seed) ==
    LET xs == subsequences(slf.bias, slf.batch_size, slf.data_bits, la, seed, 0)
        ys == subsequences(slf.bias, slf.batch_size, slf.data_bits, lb, seed,
                           slf.batch_size * slf.data_bits * SumLen(la, n))
        tgt == make_target(xs, ys)
        xx == make_xx(xs, reading)
        yy == make_yy(ys, reading)
        inter_seq == make_inter_seq(slf.batch_size, slf.data_bits)
        inter_xy == make_inter_xy(slf.batch_size, slf.data_bits)
        raw == make_inputs(data_1(xx, yy, inter_xy, slf.rotation, 1),
                           inter_seq, data_2(xx))
        m == make_mask(raw, slf.control_bits)
        inp == reset_ctrl(raw, m, slf.control_bits)
        twd == zeros_like_data(inp, slf.control_bits)
        fits == scatter_fits(twd, m, tgt)
    IN  [nb_sub_seq_a |-> n,
         seq_lengths_a |-> la,
         seq_lengths_b |-> lb,
         x |-> xs,
         y |-> ys,
         target |-> tgt,
         inputs_raw |-> raw,
         mask |-> m,
         inputs |-> inp,
         target_with_dummies |-> IF fits THEN scatter(twd, m, tgt) ELSE twd,
         pc |-> IF fits THEN "returned" ELSE "raised"]

\* One call of generate_batch.  The generator keeps no state between calls
\* (every local is created afresh), so the calls of one object are each this
\* step from the constructed object.
generate_batch ==
    /\ pc = "constructed"
    /\ ~randint_raises(self.num_subseq_min, self.num_subseq_max + 1)
    /\ ~randint_raises(self.min_sequence_length, self.max_sequence_length + 1)
    /\ ~binomial_raises(self.bias)
    /\ \E n \in self.num_subseq_min..self.num_subseq_max, seed \in 0..MaxSeed :
       \E la \in [1..n -> self.min_sequence_length..self.max_sequence_length],
          lb \in [1..n -> self.min_sequence_length..self.max_sequence_length] :
       \E l \in {generate_batch_locals(self, utils_augment, n, la, lb, seed)} :
        /\ nb_sub_seq_a' = l.nb_sub_seq_a
        /\ seq_lengths_a' = l.seq_lengths_a
        /\ seq_lengths_b' = l.seq_lengths_b
        /\ x' = l.x
        /\ y' = l.y
        /\ target' = l.target
        /\ inputs_raw' = l.inputs_raw
        /\ mask' = l.mask
        /\ inputs' = l.inputs
        /\ target_with_dummies' = l.target_with_dummies
        /\ pc' = l.pc
    /\ UNCHANGED <<params, self, utils_augment, rvars, dvars>>

Next == generate_batch

Spec == Init /\ [][Next]_vars

(***************************************************************************)
(* Any dictionary of parameters: the constructor (lines 39-56) and the     *)
(* draws of generate_batch (lines 79-88) on configurations that are not    *)
(* valid, beside the valid ones.                                           *)
(***************************************************************************)
\* the example with one parameter out of its range
InvalidParams ==
    {[ExampleParams EXCEPT !.control_bits = c] : c \in 0..2}
        \cup {[ExampleParams EXCEPT !.data_bits = 0]}
        \cup {[ExampleParams EXCEPT !.min_sequence_length = MaxSeqLen + 1]}
        \cup {[ExampleParams EXCEPT !.num_subseq_min = MaxSubseq + 1]}
        \cup {[ExampleParams EXCEPT !.bias = b] : b \in {Rat(-1, 2), Rat(3, 2)}}
        \cup {[ExampleParams EXCEPT !.data_bits = 0, !.bias = Rat(3, 2)]}

NoObject == [k \in {} |-> 0]

CInit ==
    /\ params \in Params \cup InvalidParams
    /\ self = NoObject
    /\ utils_augment = "caller"
    /\ pc = "new"
    /\ nb_sub_seq_a = 0
    /\ seq_lengths_a = <<>>
    /\ seq_lengths_b = <<>>
    /\ x = <<>>
    /\ y = <<>>
    /\ target = NoTensor
    /\ inputs_raw = NoTensor
    /\ mask = NoTensor
    /\ inputs = NoTensor
    /\ target_with_dummies = NoTensor
    /\ NoRotate
    /\ NoDwm

\* the asserts of lines 45-46
init_asserts(p) == p.control_bits >= 3 /\ p.data_bits >= 1

\* InterruptionSwapRecall(params), lines 39-56: the fields are assigned in
\* order and the asserts follow the first three, so a failed assert leaves no
\* object behind
InterruptionSwapRecall_init ==
    /\ pc = "new"
    /\ IF init_asserts(params)
       THEN self' = params /\ pc' = "constructed"
       ELSE self' = NoObject /\ pc' = "init_raised"
    /\ UNCHANGED <<params, utils_augment, nb_sub_seq_a, seq_lengths_a,
                   seq_lengths_b, x, y, target, inputs_raw, mask, inputs,
                   target_with_dummies, rvars, dvars>>

\* generate_batch when one of its draws raises: line 79 (nothing assigned
\* yet), lines 83-84 (after nb_sub_seq_a) or lines 87-88 (after the lengths)
generate_batch_raises ==
    /\ pc = "constructed"
    /\ IF randint_raises(self.num_subseq_min, self.num_subseq_max + 1)
       THEN UNCHANGED <<nb_sub_seq_a, seq_lengths_a, seq_lengths_b>>
       ELSE \E n \in self.num_subseq_min..self.num_subseq_max :
            /\ nb_sub_seq_a' = n
            /\ IF randint_raises(self.min_sequence_length,
                                 self.max_sequence_length + 1)
               THEN UNCHANGED <<seq_lengths_a, seq_lengths_b>>
               ELSE /\ binomial_raises(self.bias)
                    /\ seq_lengths_a' \in
                         [1..n -> self.min_sequence_length..self.max_sequence_length]
                    /\ seq_lengths_b' \in
                         [1..n -> self.min_sequence_length..self.max_sequence_length]
    /\ pc' = "raised"
    /\ UNCHANGED <<params, self, utils_augment, x, y, target, inputs_raw, mask,
                   inputs, target_with_dummies, rvars, dvars>>

CNext == InterruptionSwapRecall_init \/ generate_batch \/ generate_batch_raises

SpecConfig == CInit /\ [][CNext]_vars

(***************************************************************************)
(* rotate called on its own: a block of any length in 1..MaxRotLen, any    *)
(* rotation of Rotations, then the result rotated back by the negated      *)
(* rotation.                                                               *)
(***************************************************************************)
Rotations == {Rat(a, q) : a \in -MaxRotNum..MaxRotNum, q \in {1, 2, 4}}
ItemCounts == {Rat(a, 1) : a \in -MaxRotNum..MaxRotNum}

\* a whole number can be handed over as a Python int or as a float, any
\* other value as a float only
RotationTypes(r) == IF r.d = 1 THEN {"int", "float"} ELSE {"float"}

RInit ==
    /\ self = ExampleParams
    /\ params = self
    /\ utils_augment = "caller"
    /\ NoCall
    /\ rpc = "args"
    /\ \E l \in 1..MaxRotLen, seed \in 0..MaxSeed :
         rseq = binomial(Rat(1, 2), BatchSize, l, DataBits, seed, 0)
    /\ rrot \in Rotations
    /\ rtype \in RotationTypes(rrot)
    /\ ralt \in ItemCounts
    /\ rout = NoTensor
    /\ raltout = NoTensor
    /\ rback = NoTensor
    /\ NoDwm

\* rotate(rseq, rrot, L) and rotate(rseq, ralt, L)
rotate_call ==
    /\ rpc = "args"
    /\ rout' = rotate(rseq, rrot, TimeLen(rseq))
    /\ raltout' = rotate(rseq, ralt, TimeLen(rseq))
    /\ rpc' = "rotated"
    /\ UNCHANGED <<evars, dvars, rseq, rrot, rtype, ralt, rback>>

\* rotate(rout, -rrot, L)
rotate_back ==
    /\ rpc = "rotated"
    /\ rback' = rotate(rout, RatNeg(rrot), TimeLen(rout))
    /\ rpc' = "back"
    /\ UNCHANGED <<evars, dvars, rseq, rrot, rtype, ralt, rout, raltout>>

RNext == rotate_call \/ rotate_back

SpecRotate == RInit /\ [][RNext]_vars

(***************************************************************************)
(* rotate called with seq_length = 0.  Lines 15-17 keep the type of the    *)
(* rotation: np.round gives a numpy integer for a Python int and a numpy   *)
(* float for a float.  At line 19 a numpy integer modulo 0 is 0 (with a    *)
(* RuntimeWarning) and a numpy float modulo 0 is nan, which int() refuses  *)
(* with a ValueError.                                                      *)
(***************************************************************************)
\* line 19 with seq_length = 0: whether int(rotation % seq_length) raises
modulo_zero_raises(rotation_type) == rotation_type = "float"

\* line 21 with seq_length = 0, the rotation an integer: rotation is 0
rotate_zero_length(seq) ==
    Concat2(SliceTime(seq, 0, TimeLen(seq)), SliceTime(seq, 0, 0))

ZInit ==
    /\ self = ExampleParams
    /\ params = self
    /\ utils_augment = "caller"
    /\ NoCall
    /\ rpc = "args"
    /\ \E b \in 1..BatchSize, l \in 0..MaxRotLen, seed \in 0..MaxSeed :
         rseq = binomial(Rat(1, 2), b, l, DataBits, seed, 0)
    /\ rrot \in Rotations
    /\ rtype \in RotationTypes(rrot)
    /\ ralt = Rat(0, 1)
    /\ rout = NoTensor
    /\ raltout = NoTensor
    /\ rback = NoTensor
    /\ NoDwm

\* rotate(rseq, rrot, 0)
rotate_call_zero ==
    /\ rpc = "args"
    /\ IF modulo_zero_raises(rtype)
       THEN rout' = NoTensor /\ rpc' = "rotate_raised"
       ELSE rout' = rotate_zero_length(rseq) /\ rpc' = "rotated"
    /\ UNCHANGED <<evars, dvars, rseq, rrot, rtype, ralt, raltout, rback>>

ZNext == rotate_call_zero

SpecRotateZero == ZInit /\ [][ZNext]_vars

(***************************************************************************)
(* models/dwm/dwm_model.py: the memory size DWM.forward hands to           *)
(* DWMCell.init_state, after any calls of set_memory_size and forward.     *)
(***************************************************************************)
MemorySizes == -1..MaxMemory

\* inputs.size(): [batch, seq_length, in_dim], or with a second axis that
\* lines 77-78 drop
InputsSizes ==
    {<<BatchSize, l, DataBits>> : l \in 1..MaxDwmSeqLen}
        \cup {<<BatchSize, 1, l, DataBits>> : l \in 1..MaxDwmSeqLen}

\* DWM(params), lines 19-48: the two fields forward reads
DInit ==
    /\ self = ExampleParams
    /\ params = self
    /\ utils_augment = "caller"
    /\ NoCall
    /\ NoRotate
    /\ dwm \in [num_shift : 1..MaxShift, memory_addresses_size : MemorySizes]
    /\ dpc = "constructed"
    /\ dwm_inputs_size = <<>>
    /\ init_state_size = 0

\* lines 123-124
set_memory_size ==
    /\ dpc # "none"
    /\ \E mem_size \in MemorySizes :
         dwm' = [dwm EXCEPT !.memory_addresses_size = mem_size]
    /\ UNCHANGED <<evars, rvars, dpc, dwm_inputs_size, init_state_size>>

\* lines 77-81: seq_length = inputs.size(-2), after a fourth axis is dropped
forward_seq_length(size) ==
    LET sz == IF Len(size) = 4 THEN <<size[1], size[3], size[4]>> ELSE size
    IN  sz[Len(sz) - 1]

\* lines 84-90: the size handed to init_state at line 96
forward_memory_addresses_size(slf, seq_length) ==
    IF slf.memory_addresses_size = -1
    THEN IF seq_length < slf.num_shift THEN slf.num_shift ELSE seq_length
    ELSE slf.memory_addresses_size

\* forward(data_tuple), lines 50-120, up to the call of init_state
forward ==
    /\ dpc # "none"
    /\ \E size \in InputsSizes :
        /\ dwm_inputs_size' = size
        /\ init_state_size' =
             forward_memory_addresses_size(dwm, forward_seq_length(size))
    /\ dpc' = "forwarded"
    /\ UNCHANGED <<evars, rvars, dwm>>

DNext == set_memory_size \/ forward

SpecDWM == DInit /\ [][DNext]_vars

(***************************************************************************)
(* Properties of rotate (checked under SpecRotate).                        *)
(***************************************************************************)
Rotated == rpc \in {"rotated", "back"}
IsRelative(r) == RatLeq(Rat(-1, 1), r) /\ RatLeq(r, Rat(1, 1))
IsOne(r) == r.n = r.d
IsMinusOne(r) == r.n = -r.d

\* block shifted right by k items: output time-step t is input time-step
\* (t - k) mod L
ShiftedRight(out, in, k) ==
    LET L == TimeLen(in)
    IN  \A b \in Batch(in), t \in 0..(L - 1) : out[b][t + 1] = in[b][((t - k) % L) + 1]

\* C4: rotate shifts the block right: with offset the rounded rotation
\* (rotation * length when -1 <= rotation <= 1) reduced modulo length, output
\* time-step t is input time-step (t - offset) mod length.
C4_RotateShiftsRight ==
    Rotated =>
        LET L == TimeLen(rseq)
            offset == np_round(IF IsRelative(rrot) THEN RatTimesInt(rrot, L) ELSE rrot) % L
        IN  ShiftedRight(rout, rseq, offset)

\* C7: a relative rotation r in [-1, 1] and an absolute item count a with
\* round(r * L) = a rotate a block alike, a = 1 and a = -1 included.
C7_RelativeAgreesWithAbsolute ==
    (Rotated /\ IsRelative(rrot)
             /\ np_round(RatTimesInt(rrot, TimeLen(rseq))) = ralt.n)
        => rout = raltout

\* C8: a rotation of 1 is an absolute item count and shifts the block right
\* by exactly one item; a rotation of -1 shifts it left by exactly one item.
C8_UnitRotationShiftsOneItem ==
    Rotated =>
        /\ IsOne(rrot) => ShiftedRight(rout, rseq, 1)
        /\ IsMinusOne(rrot) => ShiftedRight(rout, rseq, -1)

\* an offset that stands for a whole number of items
IntegerEquivalent(r, L) ==
    IF IsRelative(r) THEN (r.n * L) % r.d = 0 ELSE r.n % r.d = 0

\* C9: rotating by r and then by -r gives the block back, for every block,
\* length and integer-equivalent offset r.
C9_RotateInvertible ==
    (rpc = "back" /\ IntegerEquivalent(rrot, TimeLen(rseq))) => rback = rseq

\* C9's case: an integer-equivalent rotation that moved the rows, undone
C9_Witness ==
    /\ rpc = "back"
    /\ IntegerEquivalent(rrot, TimeLen(rseq))
    /\ rrot.n < 0
    /\ rotation_items(rrot, TimeLen(rseq)) # 0
    /\ rout # rseq
    /\ rback = rseq

(***************************************************************************)
(* Properties of generate_batch (checked under Spec).                      *)
(***************************************************************************)
Returned == pc = "returned"
Called == pc \in {"returned", "raised"}

RECURSIVE PickFrom(_, _, _)
\* the rows at the time-steps t.. a mask row selects, in increasing time order
PickFrom(rows, m, t) ==
    IF t > Len(m) THEN <<>>
    ELSE (IF m[t] THEN <<rows[t]>> ELSE <<>>) \o PickFrom(rows, m, t + 1)

\* the rows at the time-steps a mask row selects, in increasing time order
Pick(rows, m) == PickFrom(rows, m, 1)

\* the control channel of a row: its first `width` bits
Ctrl(row, width) == SubSeq(row, 1, width)

SumX == SumLen(seq_lengths_a, nb_sub_seq_a)
SumY == SumLen(seq_lengths_b, nb_sub_seq_a)

\* C1: in every returned episode and for every batch element, the rows of
\* targets at the time-steps mask[0] selects, in time order, are exactly
\* targets_raw = concat(Y_1..Y_n, X_1..X_n).
C1_TargetsRoundTrip ==
    Returned =>
        /\ target = np_concatenate(y \o x)
        /\ \A b \in 1..self.batch_size :
             Pick(target_with_dummies[b], mask[1]) = np_concatenate(y \o x)[b]

\* C1's case: two pairs, contents that tell the order and the batch
\* elements apart, scattered and read back
C1_Witness ==
    /\ Returned
    /\ nb_sub_seq_a = 2
    /\ target[1] # target[2]
    /\ np_concatenate(y \o x) # np_concatenate(x \o y)
    /\ Pick(target_with_dummies[2], mask[1]) = target[2]

\* C2 as claimed: mask[0] has as many true entries as the X sub-sequences
\* have rows, and that is the number of rows of targets_raw.
C2_MaskCountIsSumX ==
    Returned =>
        /\ CountTrue(mask[1]) = SumX
        /\ CountTrue(mask[1]) = TimeLen(target)

\* C2 amended: mask[0] has as many true entries as the X and the Y
\* sub-sequences have rows together, the number of rows of targets_raw.
C2_MaskCountIsSumXY ==
    Returned =>
        /\ CountTrue(mask[1]) = SumX + SumY
        /\ CountTrue(mask[1]) = TimeLen(target)

C2_Witness ==
    /\ Returned
    /\ nb_sub_seq_a = 2
    /\ seq_lengths_a[1] # seq_lengths_a[2]
    /\ SumX # SumY
    /\ CountTrue(mask[1]) = SumX + SumY

\* C3 as claimed: mask[b,t] is true exactly where the control channel of
\* inputs_raw, before it is zeroed, is the DUMMY pattern [0,0,1].
C3_MaskIsDummyPattern ==
    Returned =>
        \A b \in DOMAIN mask : \A t \in 1..Len(mask[b]) :
            mask[b][t] <=> (Ctrl(inputs_raw[b][t], Len(ctrl_dummy)) = ctrl_dummy)

\* C3 amended: mask[b,t] is true exactly where every one of the first
\* control_bits channels of inputs_raw, before it is zeroed, is 1.
C3_MaskIsAllOnes ==
    Called =>
        \A b \in DOMAIN mask : \A t \in 1..Len(mask[b]) :
            mask[b][t] <=> (Ctrl(inputs_raw[b][t], self.control_bits)
                              = [i \in 1..self.control_bits |-> 1])

\* C3's case: a selected time-step whose control channel was all ones when
\* the mask was taken and is zero in the returned inputs, beside an
\* unselected DUMMY-tagged row
C3_Witness ==
    /\ Returned
    /\ \E t \in 1..Len(mask[2]) :
         /\ mask[2][t]
         /\ Ctrl(inputs_raw[2][t], self.control_bits) = <<1, 1, 1>>
         /\ Ctrl(inputs[2][t], self.control_bits) = <<0, 0, 0>>
    /\ \E t \in 1..Len(mask[2]) :
         ~mask[2][t] /\ Ctrl(inputs_raw[2][t], self.control_bits) = ctrl_dummy

\* C5 as claimed: the time length of inputs is
\* 2*sum(len X) + 2*sum(len Y) + n + 1.
C5_TimeLengthNPlus1 ==
    Returned => TimeLen(inputs) = 2 * SumX + 2 * SumY + nb_sub_seq_a + 1

\* C5 amended: the time length of inputs is
\* 2*sum(len X) + 2*sum(len Y) + 3*n + 1.
C5_TimeLength3NPlus1 ==
    Returned => TimeLen(inputs) = 2 * SumX + 2 * SumY + 3 * nb_sub_seq_a + 1

C5_Witness ==
    /\ Returned
    /\ nb_sub_seq_a = 2
    /\ SumX # SumY
    /\ TimeLen(inputs) = 2 * SumX + 2 * SumY + 7

\* C6: the mask is the same for every batch element: mask[b] = mask[0].
C6_MaskSameAcrossBatch ==
    Called => \A b \in DOMAIN mask : mask[b] = mask[1]

\* C6's case: batch elements with different contents, and a mask that
\* selects some time-steps and not others
C6_Witness ==
    /\ Returned
    /\ self.batch_size >= 2
    /\ inputs_raw[1] # inputs_raw[2]
    /\ \E t \in 1..Len(mask[2]) : mask[2][t]
    /\ \E t \in 1..Len(mask[2]) : ~mask[2][t]
    /\ mask[2] = mask[1]

\* the time-step of the INTER_SEQ row
InterSeqTime ==
    CHOOSE t \in 1..TimeLen(inputs) : Ctrl(inputs[1][t], Len(ctrl_inter)) = ctrl_inter

RECURSIVE PairOffset(_)
\* the number of time-steps the pairs before pair i take
PairOffset(i) ==
    IF i = 1 THEN 0
    ELSE PairOffset(i - 1) + seq_lengths_a[i - 1] + 2 * seq_lengths_b[i - 1] + 3

\* the time-steps of the dummies of Y_i
YDummyTimes(i) ==
    LET first == PairOffset(i) + seq_lengths_a[i] + seq_lengths_b[i] + 4
    IN  first..(first + seq_lengths_b[i] - 1)

\* C10 as claimed: the true entries of the mask are one contiguous block at
\* the end of the sequence, and no time-step before INTER_SEQ is masked.
C10_MaskOnlyAfterInterSeq ==
    Returned =>
        /\ \A t \in 1..Len(mask[1]) : mask[1][t] => t > InterSeqTime
        /\ \A t, u \in 1..Len(mask[1]) : (mask[1][t] /\ t <= u) => mask[1][u]

\* C10 amended: the time-steps after INTER_SEQ are the last sum(len X)
\* time-steps and are all masked, one contiguous block at the end; before
\* INTER_SEQ the masked time-steps are those of the dummies of each Y_i,
\* len(Y_i) of them at the end of pair i.
C10_MaskRecallAndYDummies ==
    Returned =>
        /\ Len(mask[1]) - InterSeqTime = SumX
        /\ \A t \in (InterSeqTime + 1)..Len(mask[1]) : mask[1][t]
        /\ ~mask[1][InterSeqTime]
        /\ \A t \in 1..(InterSeqTime - 1) :
             mask[1][t] <=> \E i \in 1..nb_sub_seq_a : t \in YDummyTimes(i)

C10_Witness ==
    /\ Returned
    /\ nb_sub_seq_a = 2
    /\ seq_lengths_b[1] = 2
    /\ \E t \in 1..(InterSeqTime - 1) : mask[1][t] /\ ~mask[1][t + 1]
    /\ mask[1][Len(mask[1])]

(***************************************************************************)
(* Properties of the configuration (checked under SpecConfig).             *)
(***************************************************************************)
InvalidConfig(p) ==
    \/ p.control_bits < 3
    \/ p.data_bits < 1
    \/ p.min_sequence_length > p.max_sequence_length
    \/ p.num_subseq_min > p.num_subseq_max
    \/ ~(RatLeq(Rat(0, 1), p.bias) /\ RatLeq(p.bias, Rat(1, 1)))

\* C11: an invalid configuration (control_bits < 3, data_bits < 1,
\* min_sequence_length > max_sequence_length, num_subseq_min >
\* num_subseq_max, bias outside [0,1]) ends in an error: the constructor
\* raises, or every call of generate_batch raises; no episode is returned
\* and no part of one is built.
C11_InvalidConfigRaises ==
    InvalidConfig(params) =>
        /\ pc \in {"new", "init_raised", "constructed", "raised"}
        /\ pc = "constructed" => (ENABLED generate_batch_raises /\ ~ENABLED generate_batch)
        /\ target = NoTensor
        /\ inputs_raw = NoTensor
        /\ mask = NoTensor
        /\ inputs = NoTensor
        /\ target_with_dummies = NoTensor

\* C11's case: a constructed object with a bias above 1, whose call drew two
\* pairs and their lengths and raised at the binomial draw
C11_Witness ==
    /\ InvalidConfig(params)
    /\ pc = "raised"
    /\ self.bias = Rat(3, 2)
    /\ nb_sub_seq_a = 2
    /\ Len(seq_lengths_b) = 2
    /\ x = <<>>

(***************************************************************************)
(* Properties of rotate with seq_length = 0 (checked under SpecRotateZero).*)
(***************************************************************************)
\* C12: rotate with seq_length = 0 ends in an error for every rotation,
\* relative or absolute, integer or fractional, and never returns a block.
C12_RotateZeroLengthRaises ==
    rpc # "args" => (rpc = "rotate_raised" /\ rout = NoTensor)

(***************************************************************************)
(* Further properties of generate_batch (checked under Spec).              *)
(***************************************************************************)
\* tensor t has shape [b, l, w]
HasShape(t, b, l, w) ==
    /\ DOMAIN t = 1..b
    /\ \A i \in 1..b : Len(t[i]) = l /\ \A k \in 1..l : Len(t[i][k]) = w

\* C13: for every accepted configuration, control_bits > 3 included, the
\* tensors generate_batch builds have the shapes [batch, total_time,
\* control_bits + data_bits] (inputs), [batch, total_time, data_bits]
\* (targets) and [batch, total_time] (mask), with one batch and total_time.
C13_EpisodeShapes ==
    Called =>
        LET total_time == TimeLen(inputs)
        IN  /\ HasShape(inputs, self.batch_size, total_time,
                        self.control_bits + self.data_bits)
            /\ HasShape(target_with_dummies, self.batch_size, total_time,
                        self.data_bits)
            /\ DOMAIN mask = 1..self.batch_size
            /\ \A b \in 1..self.batch_size : Len(mask[b]) = total_time

\* the time-steps of batch element b whose control channel is the pattern
TimesTagged(b, pattern) ==
    {t \in 1..Len(inputs[b]) : Ctrl(inputs[b][t], Len(pattern)) = pattern}

\* C14: a returned episode with n pairs has exactly n time-steps whose
\* control channel is INTER_SUBSEQ (only index 1 set) and exactly one whose
\* control channel is INTER_SEQ [1,1,0]; with one pair, one of each.
C14_MarkerCounts ==
    Returned =>
        \A b \in 1..self.batch_size :
            /\ Cardinality(TimesTagged(b, ctrl_xy)) = nb_sub_seq_a
            /\ Cardinality(TimesTagged(b, ctrl_inter)) = 1

\* C14's cases: an episode with two pairs, two INTER_SUBSEQ rows and one
\* INTER_SEQ row after them
C14_Witness ==
    /\ Returned
    /\ nb_sub_seq_a = 2
    /\ Cardinality(TimesTagged(2, ctrl_xy)) = 2
    /\ Cardinality(TimesTagged(2, ctrl_inter)) = 1
    /\ \A t \in TimesTagged(2, ctrl_xy) : t < InterSeqTime

\* a row: the control pattern, then the data bits
Row(ctrl, data) == ctrl \o data
ZeroData == [j \in 1..self.data_bits |-> 0]
TagRows(rows, ctrl) == [k \in 1..Len(rows) |-> Row(ctrl, rows[k])]

\* the dummy block augment returns for a sub-sequence, batch element b
DummyBlock(seq, b) == augment(seq, markers, <<1, 0, 0>>, TRUE, utils_augment)[2][b]

\* the rows of pair i: START_X, X_i, INTER_SUBSEQ, the rotated Y_i, the
\* dummy block of Y_i
PairRows(i, b) ==
    <<Row(<<1, 0, 0>>, ZeroData)>>
        \o TagRows(x[i][b], ctrl_data)
        \o <<Row(ctrl_xy, ZeroData)>>
        \o TagRows(rotate(y[i], self.rotation, TimeLen(y[i]))[b], ctrl_data)
        \o DummyBlock(y[i], b)

RECURSIVE PairsFrom(_, _)
PairsFrom(i, b) ==
    IF i > nb_sub_seq_a THEN <<>> ELSE PairRows(i, b) \o PairsFrom(i + 1, b)

RECURSIVE RecallFrom(_, _, _)
\* the dummy blocks of X_i, X_i+1, ..: whole, or without their first row
RecallFrom(i, b, whole) ==
    IF i > nb_sub_seq_a THEN <<>>
    ELSE (IF whole THEN DummyBlock(x[i], b) ELSE Tail(DummyBlock(x[i], b)))
            \o RecallFrom(i + 1, b, whole)

Layout(b, whole) ==
    PairsFrom(1, b) \o <<Row(ctrl_inter, ZeroData)>> \o RecallFrom(1, b, whole)

\* C15 as claimed: inputs_raw is, for each pair in order, START_X, X_i, one
\* INTER_SUBSEQ row, the rotated Y_i, the dummy block of Y_i; then one
\* INTER_SEQ row; then for each i in order the whole dummy block augment
\* returned for X_i; and nothing else.
C15_LayoutWholeDummy ==
    Returned => \A b \in 1..self.batch_size : inputs_raw[b] = Layout(b, TRUE)

\* C15 amended: the same layout, but the recall part holds the dummy block
\* augment returned for X_i without its first row.
C15_LayoutDummyTail ==
    Returned => \A b \in 1..self.batch_size : inputs_raw[b] = Layout(b, FALSE)

\* C15's case: two pairs of different lengths, a rotation that moves the
\* rows of Y_1
C15_Witness ==
    /\ Returned
    /\ nb_sub_seq_a = 2
    /\ seq_lengths_a[1] # seq_lengths_a[2]
    /\ seq_lengths_a[1] # seq_lengths_b[1]
    /\ rotate(y[1], self.rotation, TimeLen(y[1])) # y[1]
    /\ inputs_raw[2] = Layout(2, FALSE)
    /\ inputs_raw[2] # Layout(2, TRUE)

\* the first time-step of the dummies of Y_i, and of the recall-phase
\* dummies of X_i
YDummyStart(i) == PairOffset(i) + seq_lengths_a[i] + seq_lengths_b[i] + 4
XRecallStart(i) == InterSeqTime + SumLen(seq_lengths_a, i - 1) + 1

\* C16: targets are aligned block by block with the dummy blocks of inputs:
\* for every pair i the target rows at the time-steps of Y_i's dummies are
\* the unrotated Y_i, those at the recall-phase dummies of X_i are X_i, and
\* every other target row is zero, whatever the lengths of X_i and Y_i.
C16_TargetsAlignedWithDummies ==
    Returned =>
        \A b \in 1..self.batch_size :
            /\ \A i \in 1..nb_sub_seq_a :
                /\ SubSeq(target_with_dummies[b], YDummyStart(i),
                          YDummyStart(i) + seq_lengths_b[i] - 1) = y[i][b]
                /\ SubSeq(target_with_dummies[b], XRecallStart(i),
                          XRecallStart(i) + seq_lengths_a[i] - 1) = x[i][b]
            /\ \A t \in 1..Len(target_with_dummies[b]) :
                (\A i \in 1..nb_sub_seq_a :
                    /\ t \notin YDummyStart(i)..(YDummyStart(i) + seq_lengths_b[i] - 1)
                    /\ t \notin XRecallStart(i)..(XRecallStart(i) + seq_lengths_a[i] - 1))
                => target_with_dummies[b][t] = ZeroData

\* C16's case: two pairs, the lengths of X_1 and Y_1 different, Y_1 not the
\* same rotated, the sub-sequences told apart by their contents
C16_Witness ==
    /\ Returned
    /\ nb_sub_seq_a = 2
    /\ seq_lengths_a[1] # seq_lengths_b[1]
    /\ seq_lengths_a[1] # seq_lengths_a[2]
    /\ rotate(y[1], self.rotation, TimeLen(y[1])) # y[1]
    /\ y[1][2] # x[1][2]
    /\ x[2][2] # x[1][2]
    /\ SubSeq(target_with_dummies[2], XRecallStart(2),
              XRecallStart(2) + seq_lengths_a[2] - 1) = x[2][2]

\* C17: the erase zeroes the first control_bits channels of inputs at
\* exactly the time-steps mask[0] selects, for every batch element, and
\* leaves every data channel and the control bits of every other time-step
\* as they were; the mask is the one taken before the erase and is still
\* true at the erased time-steps.
C17_EraseFrame ==
    Called =>
        /\ \A b \in 1..self.batch_size : \A t \in 1..Len(inputs_raw[b]) :
            /\ \A j \in 1..Len(inputs_raw[b][t]) :
                inputs[b][t][j] =
                    IF mask[1][t] /\ j <= self.control_bits
                    THEN 0 ELSE inputs_raw[b][t][j]
            /\ mask[b][t] <=>
                 (\A j \in 1..self.control_bits : inputs_raw[b][t][j] = 1)
        /\ HasShape(inputs, self.batch_size, TimeLen(inputs_raw),
                    Len(inputs_raw[1][1]))

\* C17's case: a returned episode with an erased time-step the mask still
\* selects, a marker row left as it was, and data bits that are not zero
C17_Witness ==
    /\ Returned
    /\ \E t \in 1..Len(mask[2]) :
         /\ mask[2][t]
         /\ Ctrl(inputs[2][t], self.control_bits) = <<0, 0, 0>>
         /\ Ctrl(inputs_raw[2][t], self.control_bits) # <<0, 0, 0>>
    /\ \E t \in 1..Len(mask[2]) :
         ~mask[2][t] /\ Ctrl(inputs[2][t], self.control_bits) = ctrl_inter
    /\ \E t \in 1..Len(mask[2]) :
         inputs[2][t][self.control_bits + 1] = 1
    /\ make_mask(inputs, self.control_bits) # mask

(***************************************************************************)
(* Properties of DWM (checked under SpecDWM).                              *)
(***************************************************************************)
\* C18: after any calls of set_memory_size and forward, the memory size
\* forward handed to init_state is never smaller than num_shift: it is
\* max(seq_length, num_shift) when memory_addresses_size is -1 and the
\* configured size otherwise.
C18_MemoryNotBelowShift ==
    dpc = "forwarded" =>
        /\ init_state_size >= dwm.num_shift
        /\ \/ init_state_size = dwm.memory_addresses_size
           \/ \E l \in 1..MaxDwmSeqLen :
                init_state_size = IF l < dwm.num_shift THEN dwm.num_shift ELSE l

====
